---- MODULE Spec2Model ----
(***************************************************************************)
(* A model of the django-workflows engine: workflows/models.py and         *)
(* workflows/utils.py.  The database tables the engine reads and writes    *)
(* are the variables; one action per public operation of utils.py.         *)
(***************************************************************************)
EXTENDS Integers, Sequences, FiniteSets, TLC

\* ------------------------------------------------------------------ bounds

\* Number of engine calls explored from the initial state.
MaxCalls == 3

\* ------------------------------------------------- static configuration data

\* Python's None, and the value DoesNotExist lookups yield.
None == "None"

\* Content types (django.contrib.contenttypes) and their primary keys.
ContentTypes == {"doc", "page"}

ContentTypePk(ct) == IF ct = "doc" THEN 1 ELSE 2

\* The host's model instances: any Django model instance (type, id).
Entities == {"e1", "e2"}

\* ContentType.objects.get_for_model(obj)
CtypeOf(e) == IF e = "e2" THEN "page" ELSE "doc"

\* obj.id: each model's table numbers its rows from 1.
IdOf(e) == 1

\* Whether the object has its own has_permission method (PermissionBase).
HasOwnCheck(e) == e = "e2"

Users == {"u1", "u2"}

Roles == {"editor", "reviewer"}

\* The roles the permission subsystem resolves for a user.
UserRoles(u) == IF u = "u1" THEN {"editor"} ELSE {"reviewer"}

Permissions == {"can_publish", "can_edit", "can_view"}

\* Workflow rows.
Workflows == {"review", "simple"}

\* State rows (by codename).
States == {"draft", "published", "s_open", "s_closed"}

\* Workflow.initial_state (nullable foreign key).
WorkflowInitialState(w) == IF w = "review" THEN "draft" ELSE None

\* State.workflow
StateWorkflow(s) == IF s \in {"draft", "published"} THEN "review" ELSE "simple"

\* Position of State.name in the ordering of State.Meta.ordering = ("name",):
\* "Closed" < "Draft" < "Open" < "Published".
StateNameRank(s) ==
    CASE s = "s_closed" -> 1 [] s = "draft" -> 2 [] s = "s_open" -> 3 [] OTHER -> 4

\* workflow.states.all(): the workflow's states, ordered by name.
RECURSIVE SortByName(_)
SortByName(S) ==
    IF S = {} THEN <<>>
    ELSE LET m == CHOOSE x \in S : \A y \in S : StateNameRank(x) <= StateNameRank(y)
         IN <<m>> \o SortByName(S \ {m})

WorkflowStates(w) == SortByName({s \in States : StateWorkflow(s) = w})

\* Transition rows (by codename).
Transitions == {"publish", "retract", "comment", "renew", "broken", "close"}

\* A codename no Transition / State row has.
UnknownCodename == "no_such_codename"

\* Transition.destination (nullable).
TransitionDestination(t) ==
    CASE t = "publish" -> "published"
      [] t = "retract" -> "draft"
      [] t = "comment" -> None
      [] t = "renew"   -> "published"
      [] t = "broken"  -> "published"
      [] t = "close"   -> "s_closed"

\* Transition.condition: a python expression, "" when blank.
TransitionCondition(t) ==
    CASE t = "retract" -> "user.username == 'u1'"
      [] t = "renew"   -> "1"
      [] t = "broken"  -> "1/0"
      [] t = "close"   -> "0"
      [] OTHER         -> ""

\* Transition.permission (nullable).
TransitionPermission(t) ==
    CASE t = "publish" -> "can_publish"
      [] t = "renew"   -> "can_edit"
      [] t = "broken"  -> "can_publish"
      [] OTHER         -> None

\* state.transitions.all(): the outgoing transitions, in store order.
StateTransitions(s) ==
    CASE s = "draft"     -> <<"publish", "broken", "comment">>
      [] s = "published" -> <<"retract", "comment", "renew">>
      [] s = "s_open"    -> <<"close", "comment">>
      [] OTHER           -> <<>>

\* WorkflowPermissionRelation.objects.filter(workflow=w): the permissions the
\* workflow is responsible for.  filter(workflow=None) matches no row.
WorkflowPermissions(w) ==
    CASE w = "review" -> {"can_publish", "can_edit"}
      [] w = "simple" -> {"can_edit"}
      [] OTHER        -> {}

\* StatePermissionRelation.objects.filter(state=s) as <<role, permission>>.
StatePermissions(s) ==
    CASE s = "draft"     -> {<<"editor", "can_publish">>, <<"editor", "can_edit">>}
      [] s = "published" -> {<<"reviewer", "can_edit">>, <<"editor", "can_view">>}
      [] s = "s_open"    -> {<<"editor", "can_edit">>}
      [] OTHER           -> {}

\* Grants the host made on an object before the engine touched it.
PriorGrantChoices ==
    { {}, {<<"reviewer", "can_publish">>, <<"reviewer", "can_view">>} }

\* Django resolves get(content_type=<non-ContentType instance>) by the
\* instance's pk up to 1.7 and refuses it with ValueError from 1.8 on.
DjangoBuilds == {"pk_lookup", "value_error"}

\* ------------------------------------------------------------------- state

VARIABLES
    wor,        \* WorkflowObjectRelation: entity -> workflow or None
    wmr,        \* WorkflowModelRelation: content type -> workflow or None
    sor,        \* StateObjectRelation: entity -> set of states bound to it
    hist,       \* StateObjectHistory: entity -> sequence of states
    perms,      \* permission subsystem: entity -> set of <<role, permission>>
    history_enabled,  \* settings.WORKFLOWS_ENABLE_STATE_HISTORY
    build,      \* the Django build the engine runs on
    last,       \* the last engine call: arguments, result, and what it did
    calls,      \* number of engine calls so far
    procs       \* calls in progress at the same time: position and locals

vars == <<wor, wmr, sor, hist, perms, history_enabled, build, last, calls, procs>>

\* The tables as one value, for the operators below.
DB == [wor |-> wor, wmr |-> wmr, sor |-> sor, hist |-> hist, perms |-> perms]

\* ------------------------------------------------------ lookups (utils.py)

\* What a call yields: the tables afterwards, the hooks fired and steps taken
\* in order, the value returned ("raised" when an exception left the call).
Outcome(db, trace, result, error) ==
    [db |-> db, trace |-> trace, result |-> result, error |-> error]

\* One entry of a call's trace: a signal sent or a step taken.
Ev(kind, from, to, transition, user) ==
    [ev |-> kind, from |-> from, to |-> to, transition |-> transition, user |-> user]

\* get(...) found more than one row.
Multiple == "MultipleObjectsReturned"

get_workflow_for_object(db, obj) == db.wor[obj]

get_workflow_for_model(db, ctype) == db.wmr[ctype]

\* get_workflow asking the content type first.
get_workflow_type_first(db, obj) ==
    LET workflow == get_workflow_for_model(db, CtypeOf(obj))
    IN  IF workflow # None THEN workflow
        ELSE get_workflow_for_object(db, obj)

get_workflow(db, obj) ==
    LET workflow == get_workflow_for_object(db, obj)
    IN  IF workflow # None THEN workflow
        ELSE get_workflow_for_model(db, CtypeOf(obj))

get_state(db, obj) ==
    LET rows == db.sor[obj]
    IN  IF rows = {} THEN None
        ELSE IF Cardinality(rows) = 1 THEN CHOOSE s \in rows : TRUE
        ELSE Multiple

get_initial_state(w) ==
    IF WorkflowInitialState(w) # None THEN WorkflowInitialState(w)
    ELSE IF WorkflowStates(w) = <<>> THEN None
    ELSE WorkflowStates(w)[1]

\* ------------------------------------------- permission subsystem interface

\* permissions.utils.has_permission(obj, user, codename): one of the user's
\* roles holds the permission on the object.
has_permission(db, obj, user, codename) ==
    \E r \in UserRoles(user) : <<r, codename>> \in db.perms[obj]

\* remove_permission that finds nothing to delete.
remove_permission_nothing(db, obj, roles, permset) == db

\* permissions.utils.remove_permission(obj, roles, perms): bulk revoke.
remove_permission(db, obj, roles, permset) ==
    [db EXCEPT !.perms[obj] = {g \in @ : ~(g[1] \in roles /\ g[2] \in permset)}]

\* permissions.utils.grant_permission for every row of a set of (role, perm).
grant_permissions(db, obj, grants) ==
    [db EXCEPT !.perms[obj] = @ \cup grants]

\* permissions.utils.reset(obj): revoke everything on the object.
reset(db, obj) == [db EXCEPT !.perms[obj] = {}]

\* ------------------------------------------------------- guard evaluation

\* eval(transition.condition, {obj, user, transition}): the value the
\* expression yields, or that it raised.
EvalCondition(cond, obj, user, transition) ==
    CASE cond = "1/0" -> [raised |-> TRUE, value |-> None]
      [] cond = "user.username == 'u1'" ->
            [raised |-> FALSE, value |-> IF user = "u1" THEN "True" ELSE "False"]
      [] OTHER -> [raised |-> FALSE, value |-> cond]

\* Python's bool() on the values above.
PyBool(v) == v \notin {"False", "0", "", None}

\* _condition_met taking a guard that raises for a guard that is met.
condition_met_fail_open(transition, obj, user) ==
    IF TransitionCondition(transition) # ""
    THEN LET r == EvalCondition(TransitionCondition(transition), obj, user, transition)
         IN  IF r.raised THEN TRUE ELSE PyBool(r.value)
    ELSE TRUE

\* State.get_allowed_transitions._condition_met
condition_met(transition, obj, user) ==
    IF TransitionCondition(transition) # ""
    THEN LET r == EvalCondition(TransitionCondition(transition), obj, user, transition)
         IN  IF r.raised THEN FALSE ELSE PyBool(r.value)
    ELSE TRUE

\* The permissions some transition requires.
RequiredPermissions == {TransitionPermission(t) : t \in Transitions} \ {None}

\* What obj.has_permission(user, codename) does during one call, for the
\* objects that have the method: it answers, or it raises AttributeError.
\* The outgoing transitions of any one state require at most one permission,
\* so one answer per call covers the cases.
OwnCheckResults ==
    {[raises |-> FALSE, answer |-> [p \in RequiredPermissions |-> b]] : b \in BOOLEAN}

NoOwnCheck == [raises |-> FALSE, answer |-> [p \in RequiredPermissions |-> FALSE]]

OwnCheckAttributeError ==
    [raises |-> TRUE, answer |-> [p \in RequiredPermissions |-> FALSE]]

\* The permission part of the gate for one transition: the try/except
\* AttributeError around obj.has_permission.
permission_passes(db, obj, user, own, permission) ==
    IF HasOwnCheck(obj) /\ ~own.raises THEN own.answer[permission]
    ELSE has_permission(db, obj, user, permission)

\* Defective variants of the test: the permission is ignored; the guard is
\* ignored when no permission is required.
transition_allowed_guard_only(db, obj, user, own, transition) ==
    condition_met(transition, obj, user)

transition_allowed_no_guard_without_permission(db, obj, user, own, transition) ==
    LET permission == TransitionPermission(transition)
    IN  IF permission = None THEN TRUE
        ELSE permission_passes(db, obj, user, own, permission)
             /\ condition_met(transition, obj, user)

\* Whether State.get_allowed_transitions appends the transition.
transition_allowed(db, obj, user, own, transition) ==
    LET permission == TransitionPermission(transition)
    IN  IF permission = None THEN condition_met(transition, obj, user)
        ELSE permission_passes(db, obj, user, own, permission)
             /\ condition_met(transition, obj, user)

\* State.get_allowed_transitions(obj, user)
state_get_allowed_transitions(db, state, obj, user, own) ==
    LET Test(t) == transition_allowed(db, obj, user, own, t)
    IN  SelectSeq(StateTransitions(state), Test)

\* get_allowed_transitions starting from the workflow's initial state when
\* the object has no state yet.
get_allowed_transitions_from_initial(db, obj, user, own) ==
    LET state == get_state(db, obj)
        start == IF state # None \/ get_workflow(db, obj) = None THEN state
                 ELSE get_initial_state(get_workflow(db, obj))
    IN  IF start = None THEN <<>>
        ELSE state_get_allowed_transitions(db, start, obj, user, own)

\* utils.get_allowed_transitions(obj, user); the state is a single row here.
get_allowed_transitions(db, obj, user, own) ==
    LET state == get_state(db, obj)
    IN  IF state = None THEN <<>>
        ELSE state_get_allowed_transitions(db, state, obj, user, own)

\* Python's `x in list`.
In(x, seq) == \E i \in 1..Len(seq) : seq[i] = x

\* --------------------------------------------------- permission recomputation

\* update_permissions granting first and revoking afterwards.
update_permissions_grant_first(db, obj) ==
    LET workflow == get_workflow(db, obj)
        state    == get_state(db, obj)
        db1 == grant_permissions(db, obj, StatePermissions(state))
        db2 == remove_permission(db1, obj, Roles, WorkflowPermissions(workflow))
    IN  Outcome(db2, <<Ev("update_permissions", None, state, None, None)>>, None, None)

\* update_permissions returning at once when the object has no workflow.
update_permissions_noop_without_workflow(db, obj) ==
    LET workflow == get_workflow(db, obj)
        state    == get_state(db, obj)
        db1 == remove_permission(db, obj, Roles, WorkflowPermissions(workflow))
        db2 == grant_permissions(db1, obj, StatePermissions(state))
    IN  IF workflow = None THEN Outcome(db, <<>>, None, None)
        ELSE Outcome(db2, <<Ev("update_permissions", None, state, None, None)>>,
                     None, None)

\* update_permissions revoking with permissions.utils.reset.
update_permissions_reset_first(db, obj) ==
    LET state == get_state(db, obj)
        db2 == grant_permissions(reset(db, obj), obj, StatePermissions(state))
    IN  Outcome(db2, <<Ev("update_permissions", None, state, None, None)>>, None, None)

\* update_permissions that grants only what the object did not hold before.
update_permissions_skip_held(db, obj) ==
    LET workflow == get_workflow(db, obj)
        state    == get_state(db, obj)
        db1 == remove_permission(db, obj, Roles, WorkflowPermissions(workflow))
        db2 == grant_permissions(db1, obj, StatePermissions(state) \ db.perms[obj])
    IN  Outcome(db2, <<Ev("update_permissions", None, state, None, None)>>, None, None)

\* utils.update_permissions(obj)
update_permissions(db, obj) ==
    LET workflow == get_workflow(db, obj)
        state    == get_state(db, obj)
    IN  IF state = Multiple THEN Outcome(db, <<>>, "raised", Multiple)
        ELSE LET db1 == remove_permission(db, obj, Roles, WorkflowPermissions(workflow))
                 db2 == grant_permissions(db1, obj, StatePermissions(state))
             IN  Outcome(db2, <<Ev("update_permissions", None, state, None, None)>>,
                         None, None)

\* ------------------------------------------------------ state-change protocol

\* The hook handlers a call may find failing (a handler that raises).
HookNames == {"before_state_change", "after_state_change",
              "before_transition", "after_transition"}

\* change_state sending after_state_change before the history row is written.
change_state_hook_before_history(db, obj, state, initial_state, fail) ==
    LET before == Ev("before_state_change", initial_state, state, None, None)
        after  == Ev("after_state_change", initial_state, state, None, None)
        db1 == [db EXCEPT !.sor[obj] = {state}]
        db2 == IF history_enabled
               THEN [db1 EXCEPT !.hist[obj] = Append(@, state)]
               ELSE db1
        steps == <<before, Ev("binding", initial_state, state, None, None), after>>
                 \o (IF history_enabled
                     THEN <<Ev("history", None, state, None, None)>> ELSE <<>>)
    IN  Outcome(db2, steps, None, None)

\* change_state writing the state that was left into the history row.
change_state_history_of_old(db, obj, state, initial_state, fail) ==
    LET before == Ev("before_state_change", initial_state, state, None, None)
        after  == Ev("after_state_change", initial_state, state, None, None)
        db1 == [db EXCEPT !.sor[obj] = {state}]
        db2 == IF history_enabled
               THEN [db1 EXCEPT !.hist[obj] =
                        Append(@, IF initial_state = None THEN state ELSE initial_state)]
               ELSE db1
        steps == <<before, Ev("binding", initial_state, state, None, None)>>
                 \o (IF history_enabled
                     THEN <<Ev("history", None, state, None, None)>> ELSE <<>>)
                 \o <<after>>
    IN  IF fail = "before_state_change"
        THEN Outcome(db, <<before>>, "raised", "handler")
        ELSE IF state = None
        THEN Outcome(db, <<before>>, "raised", "IntegrityError")
        ELSE IF fail = "after_state_change"
        THEN Outcome(db2, steps, "raised", "handler")
        ELSE Outcome(db2, steps, None, None)

\* change_state undoing its writes when the after_state_change handler raises.
change_state_rollback(db, obj, state, initial_state, fail) ==
    LET before == Ev("before_state_change", initial_state, state, None, None)
        after  == Ev("after_state_change", initial_state, state, None, None)
        db1 == [db EXCEPT !.sor[obj] = {state}]
        db2 == IF history_enabled
               THEN [db1 EXCEPT !.hist[obj] = Append(@, state)]
               ELSE db1
        steps == <<before, Ev("binding", initial_state, state, None, None)>>
                 \o (IF history_enabled
                     THEN <<Ev("history", None, state, None, None)>> ELSE <<>>)
                 \o <<after>>
    IN  IF fail = "before_state_change"
        THEN Outcome(db, <<before>>, "raised", "handler")
        ELSE IF state = None
        THEN Outcome(db, <<before>>, "raised", "IntegrityError")
        ELSE IF fail = "after_state_change"
        THEN Outcome(db, steps, "raised", "handler")
        ELSE Outcome(db2, steps, None, None)

\* change_state writing the history row only when the relation is created.
change_state_history_on_create(db, obj, state, initial_state, fail) ==
    LET db1 == [db EXCEPT !.sor[obj] = {state}]
        db2 == IF history_enabled /\ initial_state = None
               THEN [db1 EXCEPT !.hist[obj] = Append(@, state)]
               ELSE db1
    IN  Outcome(db2,
                <<Ev("before_state_change", initial_state, state, None, None),
                  Ev("binding", initial_state, state, None, None)>>
                \o (IF history_enabled
                    THEN <<Ev("history", None, state, None, None)>> ELSE <<>>)
                \o <<Ev("after_state_change", initial_state, state, None, None)>>,
                None, None)

\* change_state that always creates a relation, also when one exists.
change_state_always_create(db, obj, state, initial_state, fail) ==
    LET db1 == [db EXCEPT !.sor[obj] = @ \cup {state}]
        db2 == IF history_enabled
               THEN [db1 EXCEPT !.hist[obj] = Append(@, state)]
               ELSE db1
    IN  Outcome(db2,
                <<Ev("before_state_change", initial_state, state, None, None),
                  Ev("binding", initial_state, state, None, None)>>
                \o (IF history_enabled
                    THEN <<Ev("history", None, state, None, None)>> ELSE <<>>)
                \o <<Ev("after_state_change", initial_state, state, None, None)>>,
                None, None)

\* utils.set_state, either branch of its try statement: the signal, the row
\* of StateObjectRelation saved (the try branch) or created (the except
\* branch), the history row, the signal.  A null state is refused when the
\* row is written (StateObjectRelation.state is not nullable).
change_state(db, obj, state, initial_state, fail) ==
    LET before == Ev("before_state_change", initial_state, state, None, None)
        after  == Ev("after_state_change", initial_state, state, None, None)
        db1 == [db EXCEPT !.sor[obj] = {state}]
        db2 == IF history_enabled
               THEN [db1 EXCEPT !.hist[obj] = Append(@, state)]
               ELSE db1
        steps == <<before, Ev("binding", initial_state, state, None, None)>>
                 \o (IF history_enabled
                     THEN <<Ev("history", None, state, None, None)>> ELSE <<>>)
                 \o <<after>>
    IN  IF fail = "before_state_change"
        THEN Outcome(db, <<before>>, "raised", "handler")
        ELSE IF state = None
        THEN Outcome(db, <<before>>, "raised", "IntegrityError")
        ELSE IF fail = "after_state_change"
        THEN Outcome(db2, steps, "raised", "handler")
        ELSE Outcome(db2, steps, None, None)

\* utils.set_state(obj, state).  `state` is a State, a codename, or None;
\* `fail` names the hook whose handler raises, or None.
set_state(db, obj, state, fail) ==
    IF state = UnknownCodename THEN Outcome(db, <<>>, "raised", "State.DoesNotExist")
    ELSE
    LET rows == db.sor[obj]
        changed == IF rows = {}
                   THEN change_state(db, obj, state, None, fail)
                   ELSE change_state(db, obj, state, get_state(db, obj), fail)
    IN  IF Cardinality(rows) > 1 THEN Outcome(db, <<>>, "raised", Multiple)
        ELSE IF changed.result = "raised" THEN changed
        ELSE LET up == update_permissions(changed.db, obj)
             IN  Outcome(up.db, changed.trace \o up.trace, up.result, up.error)

\* utils.set_initial_state(obj)
set_initial_state(db, obj, fail) ==
    LET wf == get_workflow(db, obj)
    IN  IF wf # None THEN set_state(db, obj, get_initial_state(wf), fail)
        ELSE Outcome(db, <<>>, None, None)

\* ---------------------------------------------------------- do_transition

\* Defective variants of the allowed branch of do_transition: the state is
\* never set; after_transition carries the state read after the change; the
\* destination is set even when it is the current state.
apply_transition_skip_state(db, obj, transition, user, fail) ==
    LET initial_state == get_state(db, obj)
    IN  Outcome(db, <<Ev("before_transition", initial_state, None, transition, user),
                      Ev("after_transition", initial_state, None, transition, user)>>,
                "True", None)

apply_transition_late_from(db, obj, transition, user, fail) ==
    LET initial_state == get_state(db, obj)
        dest == TransitionDestination(transition)
        mid == IF dest # None /\ dest # initial_state
               THEN set_state(db, obj, dest, fail)
               ELSE Outcome(db, <<>>, None, None)
    IN  Outcome(mid.db,
                <<Ev("before_transition", initial_state, None, transition, user)>>
                \o mid.trace
                \o <<Ev("after_transition", get_state(mid.db, obj), None, transition, user)>>,
                "True", None)

apply_transition_always_set(db, obj, transition, user, fail) ==
    LET initial_state == get_state(db, obj)
        dest == TransitionDestination(transition)
        mid == IF dest # None
               THEN set_state(db, obj, dest, fail)
               ELSE Outcome(db, <<>>, None, None)
    IN  Outcome(mid.db,
                <<Ev("before_transition", initial_state, None, transition, user)>>
                \o mid.trace
                \o <<Ev("after_transition", initial_state, None, transition, user)>>,
                "True", None)

\* utils.do_transition, the branch taken when the transition is allowed.
apply_transition(db, obj, transition, user, fail) ==
    LET initial_state == get_state(db, obj)
        before == Ev("before_transition", initial_state, None, transition, user)
        after  == Ev("after_transition", initial_state, None, transition, user)
        dest   == TransitionDestination(transition)
        mid == IF dest # None /\ dest # initial_state
               THEN set_state(db, obj, dest, fail)
               ELSE Outcome(db, <<>>, None, None)
    IN  IF fail = "before_transition"
        THEN Outcome(db, <<before>>, "raised", "handler")
        ELSE IF mid.result = "raised"
        THEN Outcome(mid.db, <<before>> \o mid.trace, "raised", mid.error)
        ELSE IF fail = "after_transition"
        THEN Outcome(mid.db, <<before>> \o mid.trace \o <<after>>, "raised", "handler")
        ELSE Outcome(mid.db, <<before>> \o mid.trace \o <<after>>, "True", None)

\* do_transition without the membership test.
do_transition_unchecked(db, obj, transition, user, own, fail) ==
    IF transition \notin Transitions THEN Outcome(db, <<>>, "False", None)
    ELSE apply_transition(db, obj, transition, user, fail)

\* utils.do_transition(obj, transition, user)
do_transition(db, obj, transition, user, own, fail) ==
    IF transition \notin Transitions THEN Outcome(db, <<>>, "False", None)
    ELSE IF get_state(db, obj) = Multiple THEN Outcome(db, <<>>, "raised", Multiple)
    ELSE IF In(transition, get_allowed_transitions(db, obj, user, own))
    THEN apply_transition(db, obj, transition, user, fail)
    ELSE Outcome(db, <<>>, "False", None)

\* ------------------------------------------------------ workflow assignment

\* set_to_object resetting the state even when the workflow is the same.
set_to_object_always_reset(db, workflow, obj, fail) ==
    set_state([db EXCEPT !.wor[obj] = workflow], obj,
              WorkflowInitialState(workflow), fail)

\* Workflow.set_to_object(obj)
set_to_object(db, workflow, obj, fail) ==
    IF db.wor[obj] = None
    THEN set_state([db EXCEPT !.wor[obj] = workflow], obj,
                   WorkflowInitialState(workflow), fail)
    ELSE IF db.wor[obj] # workflow
    THEN set_state([db EXCEPT !.wor[obj] = workflow], obj,
                   WorkflowInitialState(workflow), fail)
    ELSE Outcome(db, <<>>, None, None)

\* set_to_model that creates the relation but never overwrites one.
set_to_model_create_only(db, workflow, ctype) ==
    IF db.wmr[ctype] = None
    THEN Outcome([db EXCEPT !.wmr[ctype] = workflow], <<>>, None, None)
    ELSE Outcome(db, <<>>, None, None)

\* Workflow.set_to_model(ctype)
set_to_model(db, workflow, ctype) ==
    Outcome([db EXCEPT !.wmr[ctype] = workflow], <<>>, None, None)

\* utils.set_workflow_for_object(obj, workflow): a Workflow or a name.
set_workflow_for_object(db, obj, workflow, fail) ==
    IF workflow \notin Workflows THEN Outcome(db, <<>>, "False", None)
    ELSE set_to_object(db, workflow, obj, fail)

\* utils.set_workflow_for_model(ctype, workflow)
set_workflow_for_model(db, ctype, workflow) ==
    IF workflow \notin Workflows THEN Outcome(db, <<>>, "False", None)
    ELSE set_to_model(db, workflow, ctype)

\* --------------------------------------------------------- workflow removal

\* Workflow.get_objects(): the objects whose content type has the workflow
\* and that resolve it, and the objects that have it locally.
get_objects(db, workflow) ==
    {e \in Entities : db.wmr[CtypeOf(e)] = workflow /\ get_workflow(db, e) = workflow}
    \cup {e \in Entities : db.wor[e] = workflow}

\* utils.get_objects_for_workflow(workflow)
get_objects_for_workflow(db, workflow) ==
    IF workflow \notin Workflows THEN {} ELSE get_objects(db, workflow)

\* remove_workflow_from_model that leaves the state relations in place.
remove_workflow_from_model_keep_state(db, ctype) ==
    LET workflow == get_workflow_for_model(db, ctype)
        objs == {e \in get_objects_for_workflow(db, workflow) : CtypeOf(e) = ctype}
    IN  Outcome([db EXCEPT
                   !.perms = [e \in Entities |-> IF e \in objs THEN {} ELSE @[e]],
                   !.wmr[ctype] = None],
                <<>>, None, None)

\* utils.remove_workflow_from_model(ctype)
remove_workflow_from_model(db, ctype) ==
    LET workflow == get_workflow_for_model(db, ctype)
        objs == {e \in get_objects_for_workflow(db, workflow) : CtypeOf(e) = ctype}
    IN  IF \E e \in objs : Cardinality(db.sor[e]) > 1
        THEN Outcome(db, <<>>, "raised", Multiple)
        ELSE Outcome([db EXCEPT
                        !.sor = [e \in Entities |-> IF e \in objs THEN {} ELSE @[e]],
                        !.perms = [e \in Entities |-> IF e \in objs THEN {} ELSE @[e]],
                        !.wmr[ctype] = None],
                     <<>>, None, None)

\* The rows WorkflowObjectRelation.objects.get(content_type=obj) matches
\* when the lookup goes by obj's primary key.
wor_rows_by_pk(db, obj) ==
    {e \in Entities : db.wor[e] # None /\ ContentTypePk(CtypeOf(e)) = IdOf(obj)}

\* utils.remove_workflow_from_object(obj)
remove_workflow_from_object(db, obj, fail) ==
    IF build = "value_error" THEN Outcome(db, <<>>, "raised", "ValueError")
    ELSE
    LET rows == wor_rows_by_pk(db, obj)
        db1 == IF rows = {} THEN db
               ELSE [db EXCEPT !.wor = [e \in Entities |->
                                          IF e \in rows THEN None ELSE @[e]]]
    IN  IF Cardinality(rows) > 1 THEN Outcome(db, <<>>, "raised", Multiple)
        ELSE set_initial_state(reset(db1, obj), obj, fail)

\* ----------------------------------------------------------------- actions

\* The record kept of a call: its arguments, the value returned, the trace,
\* and the allowed transitions it computed (utils.py line 320 / 332).
Call(op, obj, arg, user, own, allowed, out) ==
    [op |-> op, obj |-> obj, arg |-> arg, user |-> user, own |-> own,
     allowed |-> allowed,
     result |-> out.result, error |-> out.error, trace |-> out.trace]

\* The requests served at the same time, and a request not yet started.
Procs == {"p1", "p2"}

Idle == [pc |-> "idle", transition |-> None, user |-> None,
         initial_state |-> None, wrote |-> None, state |-> None, togrant |-> {}]

\* The tables become those of the call's outcome.
Commit(out) ==
    /\ wor' = out.db.wor
    /\ wmr' = out.db.wmr
    /\ sor' = out.db.sor
    /\ hist' = out.db.hist
    /\ perms' = out.db.perms
    /\ calls' = calls + 1
    /\ UNCHANGED <<history_enabled, build, procs>>

Init ==
    /\ wor = [e \in Entities |-> None]
    /\ wmr = [ct \in ContentTypes |-> None]
    /\ sor = [e \in Entities |-> {}]
    /\ hist = [e \in Entities |-> <<>>]
    /\ \E g \in PriorGrantChoices : perms = [e \in Entities |-> g]
    /\ history_enabled \in BOOLEAN
    /\ build \in DjangoBuilds
    /\ last = [op |-> "init", obj |-> None, arg |-> None, user |-> None,
               own |-> NoOwnCheck, allowed |-> <<>>, result |-> None, error |-> None, trace |-> <<>>]
    /\ calls = 0
    /\ procs = [p \in Procs |-> Idle]

\* set_workflow(obj, workflow) / set_workflow_for_object(obj, workflow)
SetWorkflow(obj, workflow) ==
    /\ calls < MaxCalls
    /\ LET out == set_workflow_for_object(DB, obj, workflow, None)
       IN  /\ Commit(out)
           /\ last' = Call("set_workflow", obj, workflow, None, NoOwnCheck, <<>>, out)

\* set_workflow(ctype, workflow) / set_workflow_for_model(ctype, workflow)
SetWorkflowForType(ctype, workflow) ==
    /\ calls < MaxCalls
    /\ LET out == set_workflow_for_model(DB, ctype, workflow)
       IN  /\ Commit(out)
           /\ last' = Call("set_workflow_for_type", ctype, workflow, None, NoOwnCheck, <<>>, out)

\* set_state(obj, state)
SetState(obj, state) ==
    /\ calls < MaxCalls
    /\ LET out == set_state(DB, obj, state, None)
       IN  /\ Commit(out)
           /\ last' = Call("set_state", obj, state, None, NoOwnCheck, <<>>, out)

\* do_transition(obj, transition, user)
DoTransition(obj, transition, user, own) ==
    /\ calls < MaxCalls
    /\ LET out == do_transition(DB, obj, transition, user, own, None)
       IN  /\ Commit(out)
           /\ last' = Call("do_transition", obj, transition, user, own,
                            IF transition \in Transitions
                            THEN get_allowed_transitions(DB, obj, user, own)
                            ELSE <<>>,
                            out)

\* get_allowed_transitions(obj, user): a query, the tables stay as they are.
GetAllowedTransitions(obj, user, own) ==
    /\ calls < MaxCalls
    /\ LET out == Outcome(DB, <<>>, None, None)
       IN  /\ Commit(out)
           /\ last' = Call("get_allowed_transitions", obj, None, user, own,
                            get_allowed_transitions(DB, obj, user, own), out)

\* remove_workflow(obj)
RemoveWorkflow(obj) ==
    /\ calls < MaxCalls
    /\ LET out == remove_workflow_from_object(DB, obj, None)
       IN  /\ Commit(out)
           /\ last' = Call("remove_workflow", obj, None, None, NoOwnCheck, <<>>, out)

\* remove_workflow(ctype)
RemoveWorkflowForType(ctype) ==
    /\ calls < MaxCalls
    /\ LET out == remove_workflow_from_model(DB, ctype)
       IN  /\ Commit(out)
           /\ last' = Call("remove_workflow_for_type", ctype, None, None, NoOwnCheck, <<>>, out)

\* What obj.has_permission may answer in a call on obj.
OwnChoices(obj) == IF HasOwnCheck(obj) THEN OwnCheckResults ELSE {NoOwnCheck}

Next ==
    \/ \E obj \in Entities, w \in Workflows : SetWorkflow(obj, w)
    \/ \E ct \in ContentTypes, w \in Workflows : SetWorkflowForType(ct, w)
    \/ \E obj \in Entities, s \in States : SetState(obj, s)
    \/ \E obj \in Entities, t \in Transitions \cup {UnknownCodename}, u \in Users :
          \E own \in OwnChoices(obj) : DoTransition(obj, t, u, own)
    \/ \E obj \in Entities, u \in Users :
          \E own \in OwnChoices(obj) : GetAllowedTransitions(obj, u, own)
    \/ \E obj \in Entities : RemoveWorkflow(obj)
    \/ \E ct \in ContentTypes : RemoveWorkflowForType(ct)

Spec == Init /\ [][Next]_vars

\* ------------------------------------------------------------------ claims

\* The step is a call of `op` (every call counts one up).
IsCall(op) == calls' = calls + 1 /\ last'.op = op

\* The events of a trace with one of the given names.
Fired(trace, names) == SelectSeq(trace, LAMBDA e : e.ev \in names)

\* C1: a rejected do_transition has no effect.  When the requested transition
\* is an unknown codename or is not among the allowed transitions of
\* (entity, actor), the call returns False, the entity's state binding, the
\* history, the permissions and the workflow bindings stay as they were, and
\* none of the four hooks fires.
C1_RejectedTransitionHasNoEffect ==
    [][ ( /\ IsCall("do_transition")
          /\ \/ last'.arg \notin Transitions
             \/ ~In(last'.arg,
                    get_allowed_transitions(DB, last'.obj, last'.user, last'.own)) )
        => ( /\ last'.result = "False"
             /\ Fired(last'.trace, HookNames) = <<>>
             /\ sor' = sor /\ hist' = hist /\ perms' = perms
             /\ wor' = wor /\ wmr' = wmr ) ]_vars

\* C1 witness: a call asked for an outgoing transition of the entity's current
\* state and was refused.
C1_Witness ==
    /\ last.op = "do_transition"
    /\ last.result = "False"
    /\ last.arg \in Transitions
    /\ get_state(DB, last.obj) \in States
    /\ In(last.arg, StateTransitions(get_state(DB, last.obj)))

\* C2: transition gating.  A transition with a required permission whose
\* permission check fails for (entity, actor) is not among the allowed
\* transitions, whatever its guard evaluates to, and a do_transition call for
\* it by that actor returns False and leaves the state binding alone.
C2_TransitionGating ==
    [][ /\ IsCall("get_allowed_transitions") =>
             \A t \in Transitions :
                ( /\ TransitionPermission(t) # None
                  /\ ~permission_passes(DB, last'.obj, last'.user, last'.own,
                                        TransitionPermission(t)) )
                => ~In(t, last'.allowed)
        /\ ( /\ IsCall("do_transition")
             /\ last'.arg \in Transitions
             /\ TransitionPermission(last'.arg) # None
             /\ ~permission_passes(DB, last'.obj, last'.user, last'.own,
                                   TransitionPermission(last'.arg)) )
           => (last'.result = "False" /\ sor' = sor /\ hist' = hist) ]_vars

\* C2 witness: an actor without the required permission asked for an outgoing
\* transition of the current state whose guard is met, and was refused.
C2_Witness ==
    /\ last.op = "do_transition"
    /\ last.result = "False"
    /\ last.arg \in Transitions
    /\ get_state(DB, last.obj) \in States
    /\ In(last.arg, StateTransitions(get_state(DB, last.obj)))
    /\ TransitionPermission(last.arg) # None
    /\ condition_met(last.arg, last.obj, last.user)
    /\ ~permission_passes(DB, last.obj, last.user, last.own,
                          TransitionPermission(last.arg))

\* a is b with some elements left out, the order kept.
IsSubSeq(a, b) ==
    \E f \in [1..Len(a) -> 1..Len(b)] :
        /\ \A i \in 1..Len(a) : a[i] = b[f[i]]
        /\ \A i, j \in 1..Len(a) : i < j => f[i] < f[j]

\* The guard of t evaluates true for (obj, user).
GuardEvaluatesTrue(t, obj, user) ==
    LET r == EvalCondition(TransitionCondition(t), obj, user, t)
    IN  ~r.raised /\ r.value \in {"True", "1"}

\* C3: get_allowed_transitions(entity, actor) is the sub-sequence, in store
\* order and without duplicates, of the outgoing transitions of the entity's
\* current state for which (there is no required permission or the permission
\* check passes) and (there is no guard or the guard evaluates true); it is
\* empty when the entity has no state binding.
C3_AllowedTransitionsExact ==
    last.op = "get_allowed_transitions" =>
        LET state == get_state(DB, last.obj)
            a == last.allowed
        IN  IF state = None THEN a = <<>>
            ELSE /\ IsSubSeq(a, StateTransitions(state))
                 /\ \A i, j \in 1..Len(a) : i # j => a[i] # a[j]
                 /\ \A i \in 1..Len(StateTransitions(state)) :
                       LET t == StateTransitions(state)[i]
                       IN  In(t, a) <=>
                             /\ \/ TransitionPermission(t) = None
                                \/ permission_passes(DB, last.obj, last.user, last.own,
                                                     TransitionPermission(t))
                             /\ \/ TransitionCondition(t) = ""
                                \/ GuardEvaluatesTrue(t, last.obj, last.user)

\* C3 witness: a query that kept two of the outgoing transitions and left one
\* out.
C3_Witness ==
    /\ last.op = "get_allowed_transitions"
    /\ get_state(DB, last.obj) \in States
    /\ Len(last.allowed) = 2
    /\ Len(StateTransitions(get_state(DB, last.obj))) = 3

\* C4: do_transition(entity, t, actor) with t among the allowed transitions and
\* t.destination not null returns True, and get_state(entity) is t.destination
\* right after.
C4_AllowedTransitionApplies ==
    [][ ( /\ IsCall("do_transition")
          /\ last'.arg \in Transitions
          /\ In(last'.arg,
                get_allowed_transitions(DB, last'.obj, last'.user, last'.own))
          /\ TransitionDestination(last'.arg) # None )
        => ( /\ last'.result = "True"
             /\ sor'[last'.obj] = {TransitionDestination(last'.arg)} ) ]_vars

\* C4 witness: an applied transition that moved the entity to another state.
C4_Witness ==
    /\ last.op = "do_transition"
    /\ last.result = "True"
    /\ TransitionDestination(last.arg) # None
    /\ get_state(DB, last.obj) = TransitionDestination(last.arg)
    /\ \E i \in 1..Len(last.trace) :
          last.trace[i].ev = "binding" /\ last.trace[i].from # last.trace[i].to

\* The trace of the state-change protocol that moves obj from `from` to `to`.
ProtocolTrace(from, to) ==
    <<Ev("before_state_change", from, to, None, None),
      Ev("binding", from, to, None, None)>>
    \o (IF history_enabled THEN <<Ev("history", None, to, None, None)>> ELSE <<>>)
    \o <<Ev("after_state_change", from, to, None, None),
         Ev("update_permissions", None, to, None, None)>>

\* The steps of the state-change protocol.
ProtocolSteps ==
    {"before_state_change", "binding", "history", "after_state_change",
     "update_permissions"}

\* C5: the order of the state-change protocol.  Every set_state(entity,
\* new_state) call with a State, made directly or by do_transition,
\* set_workflow or remove_workflow, fires before_state_change once, then
\* writes the state binding, then (with history enabled) appends one history
\* entry, then fires after_state_change once, then recomputes the permissions;
\* both hooks carry from = the state bound before the call (empty if none) and
\* to = new_state.
C5_StateChangeProtocolOrder ==
    [][ /\ ( IsCall("set_state") /\ last'.arg \in States )
           => ( /\ Fired(last'.trace, {"before_state_change"}) # <<>>
                /\ Fired(last'.trace, {"before_state_change"})[1].to = last'.arg
                /\ last'.result = None )
        /\ \A e \in Entities :
             ( /\ calls' = calls + 1
               /\ last'.obj = e
               /\ Fired(last'.trace, ProtocolSteps) # <<>>
               /\ Fired(last'.trace, ProtocolSteps)[1].to \in States )
             => LET to == Fired(last'.trace, ProtocolSteps)[1].to
                IN  /\ Fired(last'.trace, ProtocolSteps)
                         = ProtocolTrace(get_state(DB, e), to)
                    /\ sor'[e] = {to}
                    /\ hist'[e] = IF history_enabled
                                  THEN Append(hist[e], to)
                                  ELSE hist[e] ]_vars

\* C5 witness: a set_state call on an entity that had a state, with history on.
C5_Witness ==
    /\ last.op = "set_state"
    /\ history_enabled
    /\ Len(last.trace) = 5
    /\ last.trace[1].from \in States
    /\ last.trace[1].from # last.trace[1].to

\* C6: a successful do_transition fires before_transition once and
\* after_transition once, the first before and the second after everything
\* else the call does (the whole state-change protocol when one runs), and
\* both carry as from_state the state the entity had before the call.
C6_TransitionHooksBracketCall ==
    [][ ( IsCall("do_transition") /\ last'.result = "True" )
        => LET tr == last'.trace
               from == get_state(DB, last'.obj)
               dest == TransitionDestination(last'.arg)
           IN  /\ Len(tr) >= 2
               /\ tr[1] = Ev("before_transition", from, None, last'.arg, last'.user)
               /\ tr[Len(tr)] = Ev("after_transition", from, None, last'.arg, last'.user)
               /\ Len(Fired(tr, {"before_transition"})) = 1
               /\ Len(Fired(tr, {"after_transition"})) = 1
               /\ SubSeq(tr, 2, Len(tr) - 1) \in {<<>>, ProtocolTrace(from, dest)} ]_vars

\* C6 witness: a successful transition out of one state into another.
C6_Witness ==
    /\ last.op = "do_transition"
    /\ last.result = "True"
    /\ Len(last.trace) > 2
    /\ last.trace[1].from \in States
    /\ last.trace[2].ev = "before_state_change"

\* C7: the no-op transition.  An allowed transition whose destination is null
\* or is the entity's current state returns True and fires before_transition
\* and after_transition, and nothing else: the state binding, the history and
\* the permissions stay as they were, no state-change hook fires and no
\* recomputation runs.
C7_NoOpTransition ==
    [][ ( /\ IsCall("do_transition")
          /\ last'.arg \in Transitions
          /\ In(last'.arg,
                get_allowed_transitions(DB, last'.obj, last'.user, last'.own))
          /\ \/ TransitionDestination(last'.arg) = None
             \/ TransitionDestination(last'.arg) = get_state(DB, last'.obj) )
        => ( /\ last'.result = "True"
             /\ last'.trace =
                  <<Ev("before_transition", get_state(DB, last'.obj), None,
                       last'.arg, last'.user),
                    Ev("after_transition", get_state(DB, last'.obj), None,
                       last'.arg, last'.user)>>
             /\ sor' = sor /\ hist' = hist /\ perms' = perms ) ]_vars

\* C7 witness: an applied transition whose destination is the state the
\* entity is in.
C7_Witness ==
    /\ last.op = "do_transition"
    /\ last.result = "True"
    /\ TransitionDestination(last.arg) # None
    /\ Len(last.trace) = 2
    /\ last.trace[1].from = TransitionDestination(last.arg)

\* C8: after a permission recomputation (which every set_state and every
\* state-changing do_transition runs) the workflow-managed grants on the
\* entity are those configured for its current state: every (role,
\* permission) configured for the state is held, and no role holds a
\* permission the entity's workflow is responsible for unless the pair is
\* configured for the state.
C8_RecomputedGrantsMatchState ==
    /\ ( \/ last.op = "set_state" /\ last.arg \in States
         \/ /\ last.op = "do_transition"
            /\ Fired(last.trace, {"binding"}) # <<>> )
       => Fired(last.trace, {"update_permissions"}) # <<>>
    /\ ( Fired(last.trace, {"update_permissions"}) # <<>> )
       => LET state == get_state(DB, last.obj)
              workflow == get_workflow(DB, last.obj)
          IN  /\ StatePermissions(state) \subseteq perms[last.obj]
              /\ \A g \in perms[last.obj] :
                    g[2] \in WorkflowPermissions(workflow)
                    => g \in StatePermissions(state)

\* C8 witness: a transition moved an entity of the review workflow to a state
\* with grants, and the entity also holds a grant the workflow does not own.
C8_Witness ==
    /\ last.op = "do_transition"
    /\ Fired(last.trace, {"update_permissions"}) # <<>>
    /\ get_workflow(DB, last.obj) = "review"
    /\ StatePermissions(get_state(DB, last.obj)) # {}
    /\ <<"reviewer", "can_view">> \in perms[last.obj]

\* C9: the lifecycle invariant.  Whenever an entity has a state binding, its
\* state belongs to the workflow get_workflow(entity) resolves.
C9_StateBelongsToWorkflow ==
    \A e \in Entities :
        \A s \in sor[e] : StateWorkflow(s) = get_workflow(DB, e)

\* C10: reassignment resets the state.  set_workflow(e, W2) on an entity that
\* had workflow W1 # W2 and state S1 leaves get_state(e) = initial_state(W2)
\* (the explicit initial state, or else the default first state) and fires
\* before_state_change and after_state_change with from = S1.
C10_ReassignmentResetsState ==
    [][ ( /\ IsCall("set_workflow")
          /\ last'.arg \in Workflows
          /\ wor[last'.obj] \in Workflows
          /\ wor[last'.obj] # last'.arg
          /\ get_state(DB, last'.obj) \in States )
        => LET S1 == get_state(DB, last'.obj)
               S2 == get_initial_state(last'.arg)
           IN  /\ sor'[last'.obj] = {S2}
               /\ Fired(last'.trace, {"before_state_change", "after_state_change"})
                  = <<Ev("before_state_change", S1, S2, None, None),
                      Ev("after_state_change", S1, S2, None, None)>> ]_vars

\* The calls that assign and remove workflows and apply transitions.
NextLifecycle ==
    \/ \E obj \in Entities, w \in Workflows : SetWorkflow(obj, w)
    \/ \E obj \in Entities, t \in Transitions, u \in Users :
          \E own \in OwnChoices(obj) : DoTransition(obj, t, u, own)
    \/ \E obj \in Entities : RemoveWorkflow(obj)
    \/ \E ct \in ContentTypes : RemoveWorkflowForType(ct)

SpecLifecycle == Init /\ [][NextLifecycle]_vars

\* C11: set_workflow(entity, W) is idempotent.  When the entity already has
\* its own binding to W, the call changes nothing: the workflow bindings, the
\* state binding, the history and the permissions stay as they were and no
\* hook fires, also when the entity has left W's initial state meanwhile.
C11_SetWorkflowIdempotent ==
    [][ ( /\ IsCall("set_workflow")
          /\ last'.arg \in Workflows
          /\ wor[last'.obj] = last'.arg )
        => ( /\ last'.trace = <<>>
             /\ last'.result = None
             /\ wor' = wor /\ wmr' = wmr /\ sor' = sor
             /\ hist' = hist /\ perms' = perms ) ]_vars

\* C11 witness: set_workflow was called again with the entity's workflow
\* after the entity had moved out of the initial state.
C11_Witness ==
    /\ last.op = "set_workflow"
    /\ last.trace = <<>>
    /\ last.result = None
    /\ wor[last.obj] = last.arg
    /\ get_state(DB, last.obj) \in States
    /\ WorkflowInitialState(last.arg) \in States
    /\ get_state(DB, last.obj) # WorkflowInitialState(last.arg)

\* The permissions some workflow is responsible for.
ManagedPermissions == UNION {WorkflowPermissions(w) : w \in Workflows}

\* C12: after remove_workflow(entity) has returned, get_state(entity) is empty
\* (the state binding is deleted) and no role holds a workflow-managed
\* permission on the entity.
C12_RemoveWorkflowClearsState ==
    ( last.op = "remove_workflow" /\ last.result = None )
    => ( /\ get_state(DB, last.obj) = None
         /\ \A g \in perms[last.obj] : g[2] \notin ManagedPermissions )

\* C13: after remove_workflow(entity) has returned, the entity has no binding
\* of its own: get_workflow(entity) is the workflow of its content type, or
\* empty when the type has none.
C13_RemoveWorkflowDropsOwnBinding ==
    ( last.op = "remove_workflow" /\ last.result = None )
    => ( /\ wor[last.obj] = None
         /\ get_workflow(DB, last.obj) = wmr[CtypeOf(last.obj)] )

\* C14: remove_workflow(type) deletes the binding of the type and, for every
\* entity of the type that resolved its workflow through the type when the
\* call was made, deletes the state binding and resets the permissions;
\* afterwards get_workflow_for_model(type) and the get_state of each of those
\* entities are empty.
C14_RemoveTypeWorkflowDetaches ==
    [][ IsCall("remove_workflow_for_type")
        => ( /\ wmr'[last'.obj] = None
             /\ last'.result = None
             /\ \A e \in Entities :
                   ( /\ CtypeOf(e) = last'.obj
                     /\ wor[e] = None
                     /\ wmr[last'.obj] # None )
                   => ( sor'[e] = {} /\ perms'[e] = {} ) ) ]_vars

\* C14 witness: the workflow was removed from a type, and an entity of the
\* type that had gone through a state has no state binding left.
C14_Witness ==
    /\ last.op = "remove_workflow_for_type"
    /\ \E e \in Entities :
          /\ CtypeOf(e) = last.obj
          /\ wor[e] = None
          /\ hist[e] # <<>>
          /\ sor[e] = {}

\* C15: remove_workflow(type) leaves every entity that has a workflow binding
\* of its own untouched: its workflow binding, its state binding and its
\* permissions are as before, also when its own workflow is the workflow of
\* the type.
C15_RemoveTypeWorkflowKeepsOwn ==
    [][ IsCall("remove_workflow_for_type")
        => \A e \in Entities :
              wor[e] # None
              => ( wor'[e] = wor[e] /\ sor'[e] = sor[e] /\ perms'[e] = perms[e] ) ]_vars

\* C16: set_workflow_for_model(type, W) changes the binding of the type and
\* nothing else: no state binding, workflow binding of an entity, history
\* entry or permission changes and no hook fires; afterwards get_workflow is
\* W for every entity of the type without a binding of its own.
C16_SetTypeWorkflowOnly ==
    [][ ( IsCall("set_workflow_for_type") /\ last'.arg \in Workflows )
        => ( /\ last'.trace = <<>>
             /\ wor' = wor /\ sor' = sor /\ hist' = hist /\ perms' = perms
             /\ wmr' = [wmr EXCEPT ![last'.obj] = last'.arg]
             /\ \A e \in Entities :
                   ( CtypeOf(e) = last'.obj /\ wor'[e] = None )
                   => get_workflow([wor |-> wor', wmr |-> wmr', sor |-> sor',
                                    hist |-> hist', perms |-> perms'], e)
                      = last'.arg ) ]_vars

\* C16 witness: the type got another workflow while an entity of the type,
\* without a binding of its own, stays in a state of the previous one.
C16_Witness ==
    /\ last.op = "set_workflow_for_type"
    /\ \E e \in Entities :
          /\ CtypeOf(e) = last.obj
          /\ wor[e] = None
          /\ get_state(DB, e) \in States
          /\ StateWorkflow(get_state(DB, e)) # last.arg
          /\ get_workflow(DB, e) = last.arg

\* C17: with calls that do not overlap, every entity has at most one state
\* binding: set_state updates the binding there is and creates one only when
\* there is none.
C17_AtMostOneStateBinding ==
    \A e \in Entities : Cardinality(sor[e]) <= 1

\* C17 witness: set_state on an entity bound to another state left one
\* binding, the new one.
C17_Witness ==
    /\ last.op = "set_state"
    /\ last.trace # <<>>
    /\ last.trace[1].from \in States
    /\ last.trace[1].from # last.arg
    /\ sor[last.obj] = {last.arg}

\* The evaluation of the guard of t raises.
GuardRaises(t, obj, user) ==
    /\ TransitionCondition(t) # ""
    /\ EvalCondition(TransitionCondition(t), obj, user, t).raised

\* The transition passes the test apart from guards that raise.
PassesWithoutRaising(t, obj, user, own) ==
    /\ \/ TransitionPermission(t) = None
       \/ permission_passes(DB, obj, user, own, TransitionPermission(t))
    /\ \/ TransitionCondition(t) = ""
       \/ GuardEvaluatesTrue(t, obj, user)

\* C19: a guard whose evaluation raises counts as not met.  The transition is
\* left out of the allowed transitions, neither get_allowed_transitions nor
\* do_transition pass the error on (do_transition answers False and does
\* nothing), and the outgoing transitions after it are evaluated as usual.
C19_RaisingGuardNotMet ==
    /\ last.op = "get_allowed_transitions" =>
          /\ last.result # "raised"
          /\ last.error = None
          /\ \A t \in Transitions :
                GuardRaises(t, last.obj, last.user) => ~In(t, last.allowed)
          /\ LET state == get_state(DB, last.obj)
                 out == IF state \in States THEN StateTransitions(state) ELSE <<>>
             IN  \A i \in 1..Len(out) : \A j \in 1..Len(out) :
                    ( /\ i < j
                      /\ GuardRaises(out[i], last.obj, last.user)
                      /\ PassesWithoutRaising(out[j], last.obj, last.user, last.own) )
                    => In(out[j], last.allowed)
    /\ ( /\ last.op = "do_transition"
         /\ last.arg \in Transitions
         /\ GuardRaises(last.arg, last.obj, last.user) )
       => ( /\ last.result = "False"
            /\ last.error = None
            /\ last.trace = <<>> )

\* C19 witness: the permission of a transition with a raising guard passed,
\* the transition is not among the allowed ones and a later one is.
C19_Witness ==
    /\ last.op = "get_allowed_transitions"
    /\ get_state(DB, last.obj) \in States
    /\ LET out == StateTransitions(get_state(DB, last.obj))
       IN  \E i \in 1..Len(out) : \E j \in 1..Len(out) :
              /\ i < j
              /\ GuardRaises(out[i], last.obj, last.user)
              /\ permission_passes(DB, last.obj, last.user, last.own,
                                   TransitionPermission(out[i]))
              /\ ~In(out[i], last.allowed)
              /\ In(out[j], last.allowed)

\* ------------------------------------------- recomputation on arbitrary input

\* update_permissions(obj), called by the host
UpdatePermissions(obj) ==
    /\ calls < MaxCalls
    /\ LET out == update_permissions(DB, obj)
       IN  /\ Commit(out)
           /\ last' = Call("update_permissions", obj, None, None, NoOwnCheck, <<>>, out)

\* Any entity, with any workflow of its own or of its type, any single state
\* binding or none, and any grants made before.
InitRecompute ==
    \E obj \in Entities :
       /\ \E w \in Workflows \cup {None} :
             wor = [e \in Entities |-> IF e = obj THEN w ELSE None]
       /\ \E w \in Workflows \cup {None} :
             wmr = [ct \in ContentTypes |-> IF ct = CtypeOf(obj) THEN w ELSE None]
       /\ \E rows \in {{}} \cup {{st} : st \in States} :
             sor = [e \in Entities |-> IF e = obj THEN rows ELSE {}]
       /\ \E g \in SUBSET (Roles \X Permissions) :
             perms = [e \in Entities |-> IF e = obj THEN g ELSE {}]
       /\ hist = [e \in Entities |-> <<>>]
       /\ history_enabled = TRUE
       /\ build = "pk_lookup"
       /\ last = [op |-> "init", obj |-> obj, arg |-> None, user |-> None,
                  own |-> NoOwnCheck, allowed |-> <<>>, result |-> None,
                  error |-> None, trace |-> <<>>]
       /\ calls = 0
       /\ procs = [p \in Procs |-> Idle]

\* The recomputation is run for the entity again and again.
NextRecompute == UpdatePermissions(last.obj)

SpecRecompute == InitRecompute /\ [][NextRecompute]_vars

\* C20: the permission recomputation is idempotent.  For any entity, state
\* and grants made before, a recomputation that follows a recomputation of
\* the same entity leaves the grants on the entity as the first one left them.
C20_RecomputationIdempotent ==
    [][ ( /\ IsCall("update_permissions")
          /\ last.op = "update_permissions"
          /\ last.obj = last'.obj )
        => perms' = perms ]_vars

\* C20 witness: the recomputation ran twice for an entity in a state; the
\* grants are those of the state next to a grant no workflow manages.
C20_Witness ==
    /\ calls = 2
    /\ last.op = "update_permissions"
    /\ get_state(DB, last.obj) \in States
    /\ StatePermissions(get_state(DB, last.obj)) # {}
    /\ StatePermissions(get_state(DB, last.obj)) \subseteq perms[last.obj]
    /\ \E g \in perms[last.obj] :
          g \notin StatePermissions(get_state(DB, last.obj))

\* ------------------------------------- two do_transition calls at the same time

\* The entity both requests are about.
SharedObj == "e1"

\* The next row of a queryset that is being iterated, in store order.
NextRow(rows) == CHOOSE g \in rows : TRUE

\* The entity has the workflow "review", is in one of its states and holds
\* what a recomputation in that state leaves; no request has started.
InitConcurrent ==
    \E st \in {x \in States : StateWorkflow(x) = "review"} : \E g \in PriorGrantChoices :
       /\ history_enabled \in BOOLEAN
       /\ build = "pk_lookup"
       /\ wor = [e \in Entities |-> IF e = SharedObj THEN "review" ELSE None]
       /\ wmr = [ct \in ContentTypes |-> None]
       /\ sor = [e \in Entities |-> IF e = SharedObj THEN {st} ELSE {}]
       /\ hist = [e \in Entities |->
                    IF e = SharedObj /\ history_enabled THEN <<st>> ELSE <<>>]
       /\ perms = [e \in Entities |->
                    IF e = SharedObj
                    THEN StatePermissions(st)
                         \cup {x \in g : x[2] \notin WorkflowPermissions("review")}
                    ELSE {}]
       /\ last = [op |-> "init", obj |-> None, arg |-> None, user |-> None,
                  own |-> NoOwnCheck, allowed |-> <<>>, result |-> None,
                  error |-> None, trace |-> <<>>]
       /\ calls = 0
       /\ procs = [p \in Procs |-> Idle]

\* do_transition up to the first query of get_allowed_transitions
\* (utils.py 325-331, 316-318): the state is read.
StepGetState(p, transition, user) ==
    /\ procs[p].pc = "idle"
    /\ LET state == get_state(DB, SharedObj)
       IN  procs' = [procs EXCEPT ![p] =
                       [@ EXCEPT !.pc = IF state = None THEN "done" ELSE "allowed",
                                 !.transition = transition,
                                 !.user = user,
                                 !.state = state]]
    /\ UNCHANGED <<wor, wmr, sor, hist, perms, history_enabled, build, last, calls>>

\* state.get_allowed_transitions and `transition in transitions`
\* (utils.py 320, 332-333, 340-341): the grants are read.
StepAllowed(p) ==
    /\ procs[p].pc = "allowed"
    /\ LET allowed == state_get_allowed_transitions(DB, procs[p].state, SharedObj,
                                                    procs[p].user, NoOwnCheck)
       IN  procs' = [procs EXCEPT ![p] =
                       [@ EXCEPT !.pc = IF In(procs[p].transition, allowed)
                                        THEN "initial_state" ELSE "done",
                                 !.state = None]]
    /\ UNCHANGED <<wor, wmr, sor, hist, perms, history_enabled, build, last, calls>>

\* initial_state = get_state(obj) and the test of the destination
\* (utils.py 334-336, 338-339).
StepInitialState(p) ==
    /\ procs[p].pc = "initial_state"
    /\ LET initial_state == get_state(DB, SharedObj)
           destination == TransitionDestination(procs[p].transition)
       IN  procs' = [procs EXCEPT ![p] =
                       IF destination # None /\ destination # initial_state
                       THEN [@ EXCEPT !.pc = "save", !.initial_state = initial_state]
                       ELSE [@ EXCEPT !.pc = "done"]]
    /\ UNCHANGED <<wor, wmr, sor, hist, perms, history_enabled, build, last, calls>>

\* set_state: the relation is fetched and saved with the destination
\* (utils.py 276-282); the row exists, so the save is an update of that row.
StepSave(p) ==
    /\ procs[p].pc = "save"
    /\ LET destination == TransitionDestination(procs[p].transition)
       IN  /\ sor' = [sor EXCEPT ![SharedObj] = {destination}]
           /\ procs' = [procs EXCEPT ![p] =
                          [@ EXCEPT !.pc = IF history_enabled THEN "history"
                                           ELSE "update_permissions",
                                    !.initial_state = None,
                                    !.wrote = destination]]
    /\ UNCHANGED <<wor, wmr, hist, perms, history_enabled, build, last, calls>>

\* set_state: the history row (utils.py 283).
StepHistory(p) ==
    /\ procs[p].pc = "history"
    /\ hist' = [hist EXCEPT ![SharedObj] = Append(@, procs[p].wrote)]
    /\ procs' = [procs EXCEPT ![p] = [@ EXCEPT !.pc = "update_permissions"]]
    /\ UNCHANGED <<wor, wmr, sor, perms, history_enabled, build, last, calls>>

\* update_permissions: workflow and state are read (utils.py 348-349); with
\* two rows StateObjectRelation.objects.get raises and the call ends.
StepRecomputeRead(p) ==
    /\ procs[p].pc = "update_permissions"
    /\ LET state == get_state(DB, SharedObj)
       IN  procs' = [procs EXCEPT ![p] =
                       [@ EXCEPT !.pc = IF state = Multiple THEN "done" ELSE "revoke",
                                 !.state = state]]
    /\ UNCHANGED <<wor, wmr, sor, hist, perms, history_enabled, build, last, calls>>

\* update_permissions: the bulk revoke, and the query for the rows of the
\* state (utils.py 355-356, 359).
StepRevoke(p) ==
    /\ procs[p].pc = "revoke"
    /\ perms' = remove_permission(DB, SharedObj, Roles,
                     WorkflowPermissions(get_workflow(DB, SharedObj))).perms
    /\ LET rows == StatePermissions(procs[p].state)
       IN  procs' = [procs EXCEPT ![p] =
                       [@ EXCEPT !.pc = IF rows = {} THEN "done" ELSE "grant",
                                 !.state = None,
                                 !.togrant = rows]]
    /\ UNCHANGED <<wor, wmr, sor, hist, history_enabled, build, last, calls>>

\* update_permissions: one grant_permission of the loop (utils.py 359-360).
StepGrant(p) ==
    /\ procs[p].pc = "grant"
    /\ LET row == NextRow(procs[p].togrant)
           rest == procs[p].togrant \ {row}
       IN  /\ perms' = grant_permissions(DB, SharedObj, {row}).perms
           /\ procs' = [procs EXCEPT ![p] =
                          [@ EXCEPT !.pc = IF rest = {} THEN "done" ELSE "grant",
                                    !.togrant = rest]]
    /\ UNCHANGED <<wor, wmr, sor, hist, history_enabled, build, last, calls>>

NextConcurrent ==
    \E p \in Procs :
       \/ \E t \in Transitions : \E u \in Users : StepGetState(p, t, u)
       \/ StepAllowed(p)
       \/ StepInitialState(p)
       \/ StepSave(p)
       \/ StepHistory(p)
       \/ StepRecomputeRead(p)
       \/ StepRevoke(p)
       \/ StepGrant(p)

SpecConcurrent == InitConcurrent /\ [][NextConcurrent]_vars

\* Both requests have returned.
AllDone == \A p \in Procs : procs[p].pc = "done"

\* The states the requests bound the entity to.
BoundStates == {procs[p].wrote : p \in Procs} \ {None}

\* The grants on the entity are those configured for the state it is bound
\* to, as far as the permissions of its workflow go.
GrantsMatchBinding(e) ==
    LET state == get_state(DB, e)
        managed == WorkflowPermissions(get_workflow(DB, e))
    IN  /\ StatePermissions(state) \subseteq perms[e]
        /\ \A g \in perms[e] : g[2] \in managed => g \in StatePermissions(state)

\* C18 as stated: when two do_transition calls on the same entity run at the
\* same time without locking, then under every interleaving of their steps,
\* once both have finished, the workflow-managed grants on the entity are the
\* configured grants of the state in the final state binding.
C18_ConcurrentFinalGrantsConsistent ==
    AllDone => GrantsMatchBinding(SharedObj)

\* C18 amended: once both calls have finished, the workflow-managed grants
\* are the configured grants of the final state when the calls bound the
\* entity to one state between them; when they bound it to two different
\* states, every workflow-managed grant is configured for one of the two,
\* and the grants need not be those of the final state.
C18_ConcurrentGrantsFromBoundStates ==
    AllDone =>
       /\ Cardinality(BoundStates) = 1 => GrantsMatchBinding(SharedObj)
       /\ Cardinality(BoundStates) = 2 =>
             \A g \in perms[SharedObj] :
                g[2] \in WorkflowPermissions(get_workflow(DB, SharedObj))
                => \E st \in BoundStates : g \in StatePermissions(st)

\* C18 witness: both calls finished after binding the entity to different
\* states, and a grant of the state that was overwritten is left.
C18_Witness ==
    /\ AllDone
    /\ Cardinality(BoundStates) = 2
    /\ \E g \in perms[SharedObj] :
          /\ g[2] \in WorkflowPermissions(get_workflow(DB, SharedObj))
          /\ g \notin StatePermissions(get_state(DB, SharedObj))

\* The states a call bound its entity to, in order.
BoundSeq(trace) ==
    LET IsBinding(ev) == ev.ev = "binding"
        bs == SelectSeq(trace, IsBinding)
    IN  [i \in 1..Len(bs) |-> bs[i].to]

\* C21: the state history is append-only.  With history enabled every
\* set_state that binds a state, called directly or from do_transition,
\* set_workflow or remove_workflow, appends one entry with the new state to
\* the history of its entity; no call changes or deletes an entry there is,
\* so a history only grows and keeps the order of its entries.
C21_HistoryAppendOnly ==
    [][ calls' = calls + 1
        => \A e \in Entities :
              hist'[e] = IF history_enabled /\ e = last'.obj
                         THEN hist[e] \o BoundSeq(last'.trace)
                         ELSE hist[e] ]_vars

\* C21 witness: set_state appended the new state to a history that had an
\* entry already.
C21_Witness ==
    /\ history_enabled
    /\ last.op = "set_state"
    /\ last.result = None
    /\ Len(hist[last.obj]) >= 2
    /\ hist[last.obj][Len(hist[last.obj])] = last.arg
    /\ BoundSeq(last.trace) = <<last.arg>>

\* ------------------------------------------------- hook handlers that raise

\* do_transition(obj, transition, user) while a handler connected to the
\* signal `fail` raises
DoTransitionFailing(obj, transition, user, own, fail) ==
    /\ calls < MaxCalls
    /\ LET out == do_transition(DB, obj, transition, user, own, fail)
       IN  /\ Commit(out)
           /\ last' = Call("do_transition", obj, transition, user, own,
                            get_allowed_transitions(DB, obj, user, own), out)

NextHooks ==
    \/ \E obj \in Entities, w \in Workflows : SetWorkflow(obj, w)
    \/ \E obj \in Entities, t \in Transitions, u \in Users :
          \E own \in OwnChoices(obj) : DoTransition(obj, t, u, own)
    \/ \E obj \in Entities, t \in Transitions, u \in Users :
          \E own \in OwnChoices(obj) : \E fail \in HookNames :
             DoTransitionFailing(obj, t, u, own, fail)

SpecHooks == Init /\ [][NextHooks]_vars

\* C22: a failing hook handler is passed on and nothing is rolled back.  When
\* the after_state_change handler raises in a do_transition that changes the
\* state, the caller gets the error, the state binding holds the new state
\* and the history entry is appended, but the permissions are not recomputed
\* (the grants stay as they were) and after_transition does not fire.  When
\* the before_state_change or the before_transition handler raises, state
\* binding, history and permissions are unchanged.
C22_HookFailureNoRollback ==
    [][ ( IsCall("do_transition") /\ last'.error = "handler" )
        => LET tr == last'.trace
               ev == tr[Len(tr)]
               obj == last'.obj
           IN  /\ last'.result = "raised"
               /\ wor' = wor /\ wmr' = wmr
               /\ ev.ev = "after_state_change" =>
                     /\ ev.to = TransitionDestination(last'.arg)
                     /\ sor' = [sor EXCEPT ![obj] = {ev.to}]
                     /\ hist' = IF history_enabled
                                THEN [hist EXCEPT ![obj] = Append(@, ev.to)]
                                ELSE hist
                     /\ perms' = perms
                     /\ Fired(tr, {"after_transition", "update_permissions"}) = <<>>
               /\ ev.ev \in {"before_state_change", "before_transition"} =>
                     /\ sor' = sor /\ hist' = hist /\ perms' = perms
                     /\ Fired(tr, {"binding", "history", "update_permissions",
                                   "after_state_change", "after_transition"}) = <<>> ]_vars

\* C22 witness: the after_state_change handler raised in a transition to
\* another state; the entity is bound to the new state and holds the grants
\* of the state it left.
C22_Witness ==
    /\ last.op = "do_transition"
    /\ last.error = "handler"
    /\ last.result = "raised"
    /\ LET ev == last.trace[Len(last.trace)]
       IN  /\ ev.ev = "after_state_change"
           /\ ev.from \in States
           /\ ev.from # ev.to
           /\ sor[last.obj] = {ev.to}
           /\ StatePermissions(ev.from) # {}
           /\ StatePermissions(ev.from) \subseteq perms[last.obj]
           /\ ~(StatePermissions(ev.to) \subseteq perms[last.obj])

\* --------------------------------------- an own permission check that raises

\* What obj.has_permission may do in a call on obj, raising included.
OwnOutcomes(obj) ==
    IF HasOwnCheck(obj) THEN OwnCheckResults \cup {OwnCheckAttributeError}
    ELSE {NoOwnCheck}

NextOwnCheck ==
    \/ \E obj \in Entities, w \in Workflows : SetWorkflow(obj, w)
    \/ \E obj \in Entities, t \in Transitions, u \in Users :
          \E own \in OwnOutcomes(obj) : DoTransition(obj, t, u, own)
    \/ \E obj \in Entities, u \in Users :
          \E own \in OwnOutcomes(obj) : GetAllowedTransitions(obj, u, own)

SpecOwnCheck == Init /\ [][NextOwnCheck]_vars

\* C23: for a transition that requires a permission, the entity's own
\* permission check decides the permission part of the gate when the entity
\* has one, whatever the default gate says; the default gate is used only
\* for an entity without a check of its own.
C23_OwnCheckDecides ==
    ( last.op = "get_allowed_transitions" /\ get_state(DB, last.obj) \in States )
    => LET out == StateTransitions(get_state(DB, last.obj))
       IN  \A i \in 1..Len(out) :
              LET t == out[i]
                  p == TransitionPermission(t)
                  gate == IF HasOwnCheck(last.obj)
                          THEN ~last.own.raises /\ last.own.answer[p]
                          ELSE has_permission(DB, last.obj, last.user, p)
                  guard == \/ TransitionCondition(t) = ""
                           \/ GuardEvaluatesTrue(t, last.obj, last.user)
              IN  p # None => ( In(t, last.allowed) <=> (gate /\ guard) )

\* ------------------------------------------------------ workflow resolution

\* get_workflow(obj): a query, the tables stay as they are.
GetWorkflow(obj) ==
    /\ calls < MaxCalls
    /\ LET out == Outcome(DB, <<>>, get_workflow(DB, obj), None)
       IN  /\ Commit(out)
           /\ last' = Call("get_workflow", obj, None, None, NoOwnCheck, <<>>, out)

NextResolve ==
    \/ \E obj \in Entities, w \in Workflows : SetWorkflow(obj, w)
    \/ \E ct \in ContentTypes, w \in Workflows : SetWorkflowForType(ct, w)
    \/ \E obj \in Entities : RemoveWorkflow(obj)
    \/ \E ct \in ContentTypes : RemoveWorkflowForType(ct)
    \/ \E obj \in Entities : GetWorkflow(obj)

SpecResolve == Init /\ [][NextResolve]_vars

\* C24: get_workflow(entity) returns the entity's own workflow binding when
\* there is one, else the binding of the entity's content type, else nothing;
\* the entity's own binding wins over the binding of the type, also when the
\* type was bound afterwards.
C24_WorkflowResolution ==
    last.op = "get_workflow"
    => last.result = ( IF wor[last.obj] # None THEN wor[last.obj]
                       ELSE IF wmr[CtypeOf(last.obj)] # None
                       THEN wmr[CtypeOf(last.obj)]
                       ELSE None )

\* C24 witness: entity and type are bound to different workflows and
\* get_workflow answered the entity's.
C24_Witness ==
    /\ last.op = "get_workflow"
    /\ wor[last.obj] \in Workflows
    /\ wmr[CtypeOf(last.obj)] \in Workflows
    /\ wor[last.obj] # wmr[CtypeOf(last.obj)]
    /\ last.result = wor[last.obj]

\* The entity resolves a workflow, has no state binding, and the transition
\* leads from the workflow's initial state to a state.
FirstTransitionCase(obj, transition) ==
    /\ sor[obj] = {}
    /\ get_workflow(DB, obj) \in Workflows
    /\ get_initial_state(get_workflow(DB, obj)) \in States
    /\ In(transition, StateTransitions(get_initial_state(get_workflow(DB, obj))))
    /\ TransitionDestination(transition) \in States

\* C25 as stated: the state binding is created lazily on the first
\* transition: for an entity that resolves a workflow (for instance through
\* its type) and has no state binding yet, the first do_transition creates
\* the binding.
C25_FirstTransitionCreatesBinding ==
    [][ ( IsCall("do_transition") /\ FirstTransitionCase(last'.obj, last'.arg) )
        => sor'[last'.obj] # {} ]_vars

\* C25 amended: a transition never creates the state binding.  For an entity
\* that resolves a workflow and has no state binding, do_transition answers
\* False, fires no hook and leaves the entity without a binding; the binding
\* is created by the first workflow assignment to the entity or by set_state.
C25_TransitionNeedsBinding ==
    [][ ( /\ IsCall("do_transition")
          /\ last'.arg \in Transitions
          /\ sor[last'.obj] = {}
          /\ get_workflow(DB, last'.obj) \in Workflows )
        => ( /\ last'.result = "False"
             /\ last'.trace = <<>>
             /\ last'.allowed = <<>>
             /\ sor' = sor /\ hist' = hist /\ perms' = perms ) ]_vars

\* C25 witness: do_transition was refused on an entity whose type has a
\* workflow and that has no state binding, for a transition that leaves the
\* workflow's initial state.
C25_Witness ==
    /\ last.op = "do_transition"
    /\ last.result = "False"
    /\ wor[last.obj] = None
    /\ wmr[CtypeOf(last.obj)] \in Workflows
    /\ FirstTransitionCase(last.obj, last.arg)

\* C26 as stated: the permission recomputation of an entity that resolves no
\* workflow is a no-op: it grants nothing and revokes nothing, whatever state
\* binding the entity has.
C26_RecomputationNoOpWithoutWorkflow ==
    [][ ( IsCall("update_permissions") /\ get_workflow(DB, last'.obj) = None )
        => perms' = perms ]_vars

\* C26 amended: the recomputation of an entity that resolves no workflow
\* revokes nothing, and grants the pairs configured for the state the entity
\* is bound to; it changes nothing only when the entity has no state binding
\* or holds those pairs already.
C26_RecomputationGrantsWithoutWorkflow ==
    [][ ( IsCall("update_permissions") /\ get_workflow(DB, last'.obj) = None )
        => /\ perms' = [perms EXCEPT ![last'.obj] =
                           @ \cup StatePermissions(get_state(DB, last'.obj))]
           /\ sor[last'.obj] = {} => perms' = perms ]_vars

\* C26 witness: the recomputation ran for an entity without workflow that is
\* bound to a state: the entity holds the pairs of the state next to a grant
\* of a workflow-managed permission that is not among them.
C26_Witness ==
    /\ last.op = "update_permissions"
    /\ get_workflow(DB, last.obj) = None
    /\ get_state(DB, last.obj) \in States
    /\ StatePermissions(get_state(DB, last.obj)) # {}
    /\ StatePermissions(get_state(DB, last.obj)) \subseteq perms[last.obj]
    /\ \E g \in perms[last.obj] :
          /\ g[2] \in ManagedPermissions
          /\ g \notin StatePermissions(get_state(DB, last.obj))

\* The roles holding a permission on an entity.
RolesHolding(grants, permission) == {r \in Roles : <<r, permission>> \in grants}

InitConcurrentSetState ==
    \E g \in PriorGrantChoices :
       /\ history_enabled \in BOOLEAN
       /\ build = "pk_lookup"
       /\ wor = [e \in Entities |-> IF e = SharedObj THEN "review" ELSE None]
       /\ wmr = [ct \in ContentTypes |-> None]
       /\ sor = [e \in Entities |-> {}]
       /\ hist = [e \in Entities |-> <<>>]
       /\ perms = [e \in Entities |-> IF e = SharedObj THEN g ELSE {}]
       /\ last = [op |-> "init", obj |-> None, arg |-> None, user |-> None,
                  own |-> NoOwnCheck, allowed |-> <<>>, result |-> None,
                  error |-> None, trace |-> <<>>]
       /\ calls = 0
       /\ procs = [p \in Procs |-> Idle]

\* set_state: StateObjectRelation.objects.get (utils.py 276-279); no row
\* leads to the except branch, two rows raise MultipleObjectsReturned.
StepSetStateLookup(p, state) ==
    /\ procs[p].pc = "idle"
    /\ LET rows == sor[SharedObj]
       IN  procs' = [procs EXCEPT ![p] =
                       [@ EXCEPT !.pc = IF rows = {} THEN "create"
                                        ELSE IF Cardinality(rows) > 1 THEN "done"
                                        ELSE "save_row",
                                 !.state = state,
                                 !.initial_state = IF Cardinality(rows) = 1
                                                   THEN get_state(DB, SharedObj)
                                                   ELSE None]]
    /\ UNCHANGED <<wor, wmr, sor, hist, perms, history_enabled, build, last, calls>>

\* After the relation is written: the history row when history is kept, else
\* update_permissions.
AfterWrite == IF history_enabled THEN "history" ELSE "update_permissions"

\* set_state, try branch: sor.state = state; sor.save() (utils.py 281-282),
\* an update of the row that was fetched; unique_together refuses a second
\* row with the same state.
StepSetStateSave(p) ==
    /\ procs[p].pc = "save_row"
    /\ LET state == procs[p].state
           others == sor[SharedObj] \ {procs[p].initial_state}
       IN  IF state \in others
           THEN /\ procs' = [procs EXCEPT ![p] = [@ EXCEPT !.pc = "done",
                                                           !.initial_state = None,
                                                           !.state = None]]
                /\ sor' = sor
           ELSE /\ procs' = [procs EXCEPT ![p] = [@ EXCEPT !.pc = AfterWrite,
                                                           !.initial_state = None,
                                                           !.state = None,
                                                           !.wrote = state]]
                /\ sor' = [sor EXCEPT ![SharedObj] = others \cup {state}]
    /\ UNCHANGED <<wor, wmr, hist, perms, history_enabled, build, last, calls>>

\* set_state, except branch: StateObjectRelation.objects.create
\* (utils.py 285-287); unique_together (models.py 298-299) refuses the row
\* only when a row with the same state is there.
StepSetStateCreate(p) ==
    /\ procs[p].pc = "create"
    /\ LET state == procs[p].state
       IN  IF state \in sor[SharedObj]
           THEN /\ procs' = [procs EXCEPT ![p] = [@ EXCEPT !.pc = "done",
                                                           !.state = None]]
                /\ sor' = sor
           ELSE /\ procs' = [procs EXCEPT ![p] = [@ EXCEPT !.pc = AfterWrite,
                                                           !.state = None,
                                                           !.wrote = state]]
                /\ sor' = [sor EXCEPT ![SharedObj] = @ \cup {state}]
    /\ UNCHANGED <<wor, wmr, hist, perms, history_enabled, build, last, calls>>

NextConcurrentSetState ==
    \E p \in Procs :
       \/ \E st \in States : StepSetStateLookup(p, st)
       \/ StepSetStateSave(p)
       \/ StepSetStateCreate(p)
       \/ StepHistory(p)
       \/ StepRecomputeRead(p)
       \/ StepRevoke(p)
       \/ StepGrant(p)

SpecConcurrentSetState == InitConcurrentSetState /\ [][NextConcurrentSetState]_vars

\* C28: two set_state calls that run at the same time on an entity without
\* state binding cannot leave it with two bindings: under every interleaving
\* of their lookup and create steps, also when they set different states,
\* the entity ends with one state binding and get_state stays well defined.
C28_ConcurrentSetStateOneBinding ==
    AllDone => ( /\ Cardinality(sor[SharedObj]) = 1
                 /\ get_state(DB, SharedObj) \in States )

\* The calls that are made on one entity.
EntityOps == {"set_state", "do_transition", "set_workflow", "remove_workflow"}

\* C29: calls on different entities are independent.  A set_state,
\* do_transition, set_workflow or remove_workflow call on one entity leaves
\* the workflow binding, the state binding, the history and the permissions
\* of every other entity as they were, whatever the ids of the two are.
C29_EntitiesIndependent ==
    [][ ( calls' = calls + 1 /\ last'.op \in EntityOps )
        => \A e \in Entities \ {last'.obj} :
              /\ wor'[e] = wor[e]
              /\ sor'[e] = sor[e]
              /\ hist'[e] = hist[e]
              /\ perms'[e] = perms[e] ]_vars

\* C30: after remove_workflow(entity) has returned for an entity whose
\* content type has the workflow Wt, the entity is in the initial state of Wt
\* (the explicit one, or the first state by default), and its permissions
\* are those recomputed for that state after the reset.
C30_RemoveFallsBackToTypeWorkflow ==
    ( /\ last.op = "remove_workflow"
      /\ last.result = None
      /\ wmr[CtypeOf(last.obj)] \in Workflows )
    => LET initial == get_initial_state(wmr[CtypeOf(last.obj)])
       IN  /\ get_state(DB, last.obj) = initial
           /\ perms[last.obj] = StatePermissions(initial)

\* C31: a reassignment does not leak grants of the old workflow.  After
\* set_workflow(e, W2) has replaced W1 on an entity, no grant that the
\* recomputation made for the state of W1 the entity was in is left on the
\* entity, unless the initial state of W2 configures the same pair.
C31_ReassignmentLeaksNoGrants ==
    [][ ( /\ IsCall("set_workflow")
          /\ wor[last'.obj] \in Workflows
          /\ last'.arg \in Workflows
          /\ wor[last'.obj] # last'.arg
          /\ wor'[last'.obj] = last'.arg
          /\ get_state(DB, last'.obj) \in States
          /\ StateWorkflow(get_state(DB, last'.obj)) = wor[last'.obj] )
        => \A g \in StatePermissions(get_state(DB, last'.obj)) \cap perms[last'.obj] :
              g \in perms'[last'.obj]
              => g \in StatePermissions(get_initial_state(last'.arg)) ]_vars

\* The state of the only row of a state binding.
BoundState(rows) == CHOOSE st \in rows : TRUE

\* C32: with history kept from the start and calls that do not overlap, in
\* every state in which an entity has a state binding the last history entry
\* of the entity is the state of the binding, and the history is the
\* sequence of states the binding went through: a call that binds the entity
\* to a state appends that state, and the history of an entity whose binding
\* is not written stays as it is.
C32_HistoryFollowsBinding ==
    [][ ( history_enabled /\ calls' = calls + 1 )
        => \A e \in Entities :
              /\ sor'[e] # {} =>
                    /\ Cardinality(sor'[e]) = 1
                    /\ hist'[e] # <<>>
                    /\ hist'[e][Len(hist'[e])] = BoundState(sor'[e])
              /\ ( sor'[e] # {} /\ sor'[e] # sor[e] )
                 => hist'[e] = Append(hist[e], BoundState(sor'[e]))
              /\ hist'[e] # hist[e]
                 => ( /\ e = last'.obj
                      /\ sor'[e] # {}
                      /\ hist'[e] = Append(hist[e], BoundState(sor'[e]))
                      /\ Fired(last'.trace, {"binding"}) # <<>> ) ]_vars

\* C32 witness: a transition moved an entity whose history had entries to
\* another state, and the history ends with the state it left and the state
\* it is bound to.
C32_Witness ==
    /\ history_enabled
    /\ last.op = "do_transition"
    /\ last.result = "True"
    /\ sor[last.obj] # {}
    /\ LET h == hist[last.obj]
       IN  /\ Len(h) >= 2
           /\ h[Len(h)] = BoundState(sor[last.obj])
           /\ h[Len(h) - 1] # h[Len(h)]
           /\ h[Len(h)] = TransitionDestination(last.arg)

====
